---- MODULE Spec2Model ----
(***************************************************************************)
(* Model of the incident analyzer: the POST handler of                     *)
(* src/app/api/analyze/route.ts (input validation, prompt assembly, the    *)
(* primary/repair extraction protocol) and the client page that calls it.  *)
(*                                                                         *)
(* Texts returned by the extraction capability are sequences of tokens:    *)
(*   "F"  three backticks          "j"  the word json                      *)
(*   "nl" a newline                "sp" a space                            *)
(*   "V","W","K"  the text of one JSON value     "X"  text that is no JSON *)
(* Long strings (ticket, attachment text) are slices [src, from, len] of a *)
(* named source text, so that "the first n characters" is checkable.       *)
(***************************************************************************)
EXTENDS Integers, Sequences, FiniteSets, TLC

\* the server: the environment of the process and one invocation of POST
VARIABLES env, pc, req, calls, content, raws, trace, resp

\* the page: the state of the Home component and one invocation of
\* handleAnalyze
VARIABLES page, cpc, ticket, files, outcomes, loading, analysis, error, downloads

\* the exports: one invocation of downloadPDF, and what the last export did
VARIABLES pdf, outcome

svars == <<env, pc, req, calls, content, raws, trace, resp>>
cvars == <<page, cpc, ticket, files, outcomes, loading, analysis, error, downloads, pdf, outcome>>
vars == <<svars, cvars>>

\* ------------------------------------------------------------------ bounds
MaxAtts == 2

\* ------------------------------------------------------- program constants
MAX_TICKET == 10000
MAX_ATT == 6000

Min(a, b) == IF a < b THEN a ELSE b

\* ------------------------------------------------------------- JS strings
Slice(s, f, l) == [src |-> s, from |-> f, len |-> l]

\* String.prototype.substring(start, end) on a slice, 0 <= start <= end
Substring(t, start, end) ==
    Slice(t.src, t.from + Min(start, t.len), Min(end, t.len) - Min(start, t.len))

\* ---------------------------------------------------- texts of the model
WS == {"nl", "sp"}

RECURSIVE DropLeadingWs(_)
DropLeadingWs(t) ==
    IF t # <<>> /\ Head(t) \in WS THEN DropLeadingWs(Tail(t)) ELSE t

RECURSIVE DropTrailingWs(_)
DropTrailingWs(t) ==
    IF t # <<>> /\ t[Len(t)] \in WS
    THEN DropTrailingWs(SubSeq(t, 1, Len(t) - 1)) ELSE t

\* content.replace(/^```json\s*\n?/, '')
StripLead(t) ==
    IF Len(t) >= 2 /\ t[1] = "F" /\ t[2] = "j"
    THEN DropLeadingWs(SubSeq(t, 3, Len(t)))
    ELSE t

\* content.replace(/\n?```\s*$/, ''): the match is a fence followed by
\* nothing but whitespace up to the end of the text, so only the last fence
\* of the text can match; a newline right before it is part of the match.
StripTrail(t) ==
    LET u == DropTrailingWs(t)
    IN  IF u # <<>> /\ u[Len(u)] = "F"
        THEN IF Len(u) >= 2 /\ u[Len(u) - 1] = "nl"
             THEN SubSeq(u, 1, Len(u) - 2)
             ELSE SubSeq(u, 1, Len(u) - 1)
        ELSE t

StripFence(t) == StripTrail(StripLead(t))

\* ------------------------------------------------------------ JSON values
CSF_FUNCTIONS == {"Identify", "Protect", "Detect", "Respond", "Recover"}
SEVERITIES == {"Low", "Medium", "High", "Critical"}

PayloadTokens == {"V", "W", "K"}

NoValue == [defined |-> FALSE, csf |-> {}, severity |-> "", actions |-> <<>>]

\* the texts of an action item are sequences of characters: "q" is a double
\* quote, "c" a comma, "n" a newline, anything else a run of letters
Absent == [has |-> FALSE, s |-> <<>>]
Present(x) == [has |-> TRUE, s |-> x]

\* an element of Analysis.actions: title, owner?, priority?, due_window?
ActionItem(t, o, p, d) == [title |-> t, owner |-> o, priority |-> p, due_window |-> d]

PlainAction == ActionItem(<<"a">>, Present(<<"o">>), Present(<<"P1">>), Present(<<"24h">>))

ReportWith(keys, sev, acts) ==
    [defined |-> TRUE, csf |-> keys, severity |-> sev, actions |-> acts]

Report(keys, sev) == ReportWith(keys, sev, <<PlainAction>>)

\* the JSON value each payload text denotes
PayloadValue(tok) ==
    CASE tok = "V" -> Report(CSF_FUNCTIONS, "High")
      [] tok = "W" -> Report(CSF_FUNCTIONS, "Severe")
      [] tok = "K" -> Report(CSF_FUNCTIONS \ {"Recover"}, "Low")

\* the IncidentReport invariants of the data model
IsIncidentReport(v) ==
    v.defined /\ v.csf = CSF_FUNCTIONS /\ v.severity \in SEVERITIES

\* ------------------------------------------------------ errors, messages
NoMsg == [kind |-> "none", of |-> <<>>]
Msg(k) == [kind |-> k, of |-> <<>>]
SyntaxErrorMsg(t) == [kind |-> "SyntaxError", of |-> t]

\* a thrown value: an Error carrying a message, or something else
ErrorOf(m) == [isError |-> TRUE, message |-> m]
NonError == [isError |-> FALSE, message |-> NoMsg]

\* JSON.parse: whitespace around one JSON value is allowed, anything else
\* throws a SyntaxError whose message depends on the text
JsonParse(t) ==
    LET u == DropTrailingWs(DropLeadingWs(t))
    IN  IF Len(u) = 1 /\ u[1] \in PayloadTokens
        THEN [ok |-> TRUE, value |-> PayloadValue(u[1]), error |-> NonError]
        ELSE [ok |-> FALSE, value |-> NoValue, error |-> ErrorOf(SyntaxErrorMsg(t))]

\* ------------------------------------------------------------ HTTP inputs
\* the ticket field of the body: undefined, a falsy or truthy non-string,
\* or a string of some length
TicketLens == {0, 1, MAX_TICKET - 1, MAX_TICKET, MAX_TICKET + 1}

Tickets ==
    {[type |-> ty, text |-> Slice(<<"ticket">>, 0, 0)] : ty \in {"undefined", "zero", "number"}}
    \cup {[type |-> "string", text |-> Slice(<<"ticket">>, 0, n)] : n \in TicketLens}

AttLens == {MAX_ATT - 1, MAX_ATT, MAX_ATT + 1}
AttNames == {"a.log"}

\* an element of the attachments array: well formed, or without a text to
\* take a substring of
Atts ==
    {[hasText |-> FALSE, name |-> "a.log", mime |-> "text/plain", text |-> Slice(<<"a.log">>, 0, 0)]}
    \cup {[hasText |-> TRUE, name |-> n, mime |-> "text/plain", text |-> Slice(<<n>>, 0, l)] :
            n \in AttNames, l \in AttLens}

SeqsUpTo(S, n) == UNION {[1..k -> S] : k \in 0..n}

Attachments ==
    {[type |-> ty, items |-> <<>>] : ty \in {"undefined", "notarray"}}
    \cup {[type |-> "array", items |-> a] : a \in SeqsUpTo(Atts, MaxAtts)}

\* the request body as request.json() delivers it: it throws, it is null
\* (destructuring throws), or it is an object
Bodies ==
    {[kind |-> k, ticket |-> [type |-> "undefined", text |-> Slice(<<"ticket">>, 0, 0)],
      attachments |-> [type |-> "undefined", items |-> <<>>]] : k \in {"unreadable", "null"}}
    \cup {[kind |-> "object", ticket |-> t, attachments |-> a] :
            t \in Tickets, a \in Attachments}

\* -------------------------------------------- the extraction capability
FenceOpeners == {<<>>, <<"F", "j", "nl">>, <<"F", "nl">>, <<"F", "j", "sp", "nl">>}
FenceClosers == {<<>>, <<"nl", "F">>}
Payloads == {<<"V">>, <<"W">>, <<"K">>, <<"X">>}

\* what the call resolves to: a response without choices, or a completion
\* whose message.content is null or a text
Completions ==
    {[choices |-> ch, hasContent |-> FALSE, text |-> <<>>] : ch \in BOOLEAN}
    \cup {[choices |-> TRUE, hasContent |-> TRUE, text |-> o \o p \o c] :
            o \in FenceOpeners, p \in Payloads, c \in FenceClosers}

Throwables == {ErrorOf(Msg("network")), NonError}

\* resp.choices[0]?.message?.content || ''
ContentOf(r) == IF r.hasContent THEN r.text ELSE <<>>

\* ------------------------------------------------------------- responses
NoResp == [status |-> 0, error |-> NoMsg, analysis |-> NoValue]

\* NextResponse.json({ error }, { status })
ErrorResponse(st, m) == [status |-> st, error |-> m, analysis |-> NoValue]

\* NextResponse.json({ analysis })
AnalysisResponse(v) == [status |-> 200, error |-> NoMsg, analysis |-> v]

\* the catch clause of POST
AlwaysAnalysisFailed(e) == ErrorResponse(500, Msg("Analysis failed"))

Caught(e) ==
    ErrorResponse(500, IF e.isError THEN e.message ELSE Msg("Analysis failed"))

\* ------------------------------------------------------- input validation
Truthy(t) == t.type = "number" \/ (t.type = "string" /\ t.text.len > 0)

\* !ticket || typeof ticket !== 'string'
InvalidTicket(t) == ~Truthy(t) \/ t.type # "string"

RejectsAtLimit(t) == t.text.len >= MAX_TICKET

\* ticket.length > 10000
TooLong(t) == t.text.len > MAX_TICKET

\* -------------------------------------------------------- prompt assembly
TruncateTail(att) == Substring(att.text, att.text.len - Min(att.text.len, MAX_ATT), att.text.len)

\* att.text.substring(0, 6000)
Truncate(att) == Substring(att.text, 0, MAX_ATT)

TicketPart(t) == [part |-> "TICKET", name |-> "", mime |-> "", text |-> t.text]

AttachmentPart(att) ==
    [part |-> "ATTACHMENT", name |-> att.name, mime |-> att.mime, text |-> Truncate(att)]

\* attachments && Array.isArray(attachments)
HasAttachments(a) == a.type = "array"

\* the loop over the attachments throws a TypeError at an element that has
\* no text
AssemblyThrows(a) ==
    HasAttachments(a) /\ \E i \in 1..Len(a.items) : ~a.items[i].hasText

UserPrompt(b) ==
    <<TicketPart(b.ticket)>>
    \o (IF HasAttachments(b.attachments)
        THEN [i \in 1..Len(b.attachments.items) |-> AttachmentPart(b.attachments.items[i])]
        ELSE <<>>)

\* ------------------------------------------------------ extraction calls
PrimaryCall(prompt) ==
    [kind |-> "primary", system |-> "SYSTEM_PROMPT", prompt |-> prompt, text |-> <<>>]

RepairInputRaw(raw, cleaned) == raw

\* `Fix this JSON:\n${content}`: content is the cleaned text
RepairInput(raw, cleaned) == cleaned

RepairCall(t) ==
    [kind |-> "repair", system |-> "Fix malformed JSON", prompt |-> <<>>, text |-> t]

\* ------------------------------------------------------------------ POST
\* What a step of the handler leaves behind: where the handler is, the calls
\* issued so far, the response (NoResp while there is none) and the protocol
\* states the run has gone through.
Outcome(p, cs, r, tr) == [pc |-> p, calls |-> cs, resp |-> r, trace |-> tr]

KeyNeverMissing(e) == FALSE

\* !process.env.OPENAI_API_KEY
KeyMissing(e) == ~e.OPENAI_API_KEY

\* lines 27-61: from the request to the first await of the capability
Start(b, e) ==
    IF b.kind # "object"
    THEN Outcome("done", <<>>, Caught(ErrorOf(Msg(b.kind))), <<>>)
    ELSE IF InvalidTicket(b.ticket)
    THEN Outcome("done", <<>>, ErrorResponse(400, Msg("Invalid ticket description")), <<>>)
    ELSE IF TooLong(b.ticket)
    THEN Outcome("done", <<>>, ErrorResponse(400, Msg("Ticket description too long")), <<>>)
    ELSE IF AssemblyThrows(b.attachments)
    THEN Outcome("done", <<>>, Caught(ErrorOf(Msg("TypeError"))), <<>>)
    ELSE IF KeyMissing(e)
    THEN Outcome("done", <<>>, ErrorResponse(500, Msg("OpenAI API key not configured")), <<>>)
    ELSE Outcome("awaitPrimary", <<PrimaryCall(UserPrompt(b))>>, NoResp, <<"Requested">>)

\* an exception that leaves the handler: no response is made of it
AfterThrowEscapes(e, cs, tr) == Outcome("done", cs, NoResp, Append(tr, "Failed"))

\* a call of the capability throws, or reading resp.choices[0] of a response
\* without choices does: the catch clause answers
AfterThrow(e, cs, tr) == Outcome("done", cs, Caught(e), Append(tr, "Failed"))

\* lines 63-79: the primary call has resolved
AfterPrimaryAlwaysRepair(r, cs, tr) ==
    LET c == StripFence(ContentOf(r))
    IN  IF ~r.choices
        THEN AfterThrow(ErrorOf(Msg("TypeError")), cs, tr)
        ELSE Outcome("awaitRepair", Append(cs, RepairCall(RepairInput(ContentOf(r), c))),
                     NoResp, tr \o <<"RawReceived", "RepairRequested">>)

AfterPrimary(r, cs, tr) ==
    LET c == StripFence(ContentOf(r))
        p == JsonParse(c)
    IN  IF ~r.choices
        THEN AfterThrow(ErrorOf(Msg("TypeError")), cs, tr)
        ELSE IF p.ok
        THEN Outcome("done", cs, AnalysisResponse(p.value), tr \o <<"RawReceived", "Parsed">>)
        ELSE Outcome("awaitRepair", Append(cs, RepairCall(RepairInput(ContentOf(r), c))),
                     NoResp, tr \o <<"RawReceived", "RepairRequested">>)

\* lines 81-92: the repair call has resolved
AfterRepairRetry(r, c, cs, tr) ==
    LET fixedContent == StripFence(ContentOf(r))
        p == JsonParse(fixedContent)
    IN  IF ~r.choices
        THEN AfterThrow(ErrorOf(Msg("TypeError")), cs, tr)
        ELSE IF p.ok
        THEN Outcome("done", cs, AnalysisResponse(p.value), Append(tr, "Parsed"))
        ELSE Outcome("awaitRepair", Append(cs, RepairCall(c)), NoResp,
                     Append(tr, "RepairRequested"))

AfterRepair(r, c, cs, tr) ==
    LET fixedContent == StripFence(ContentOf(r))
        p == JsonParse(fixedContent)
    IN  IF ~r.choices
        THEN AfterThrow(ErrorOf(Msg("TypeError")), cs, tr)
        ELSE IF p.ok
        THEN Outcome("done", cs, AnalysisResponse(p.value), Append(tr, "Parsed"))
        ELSE Outcome("done", cs, Caught(p.error), Append(tr, "Failed"))

Apply(o) ==
    /\ pc' = o.pc
    /\ calls' = o.calls
    /\ resp' = o.resp
    /\ trace' = o.trace

Envs == [OPENAI_API_KEY : BOOLEAN]

\* the completions whose content lines 63 and 81 have read
Received(rs, r) == IF r.choices THEN Append(rs, r) ELSE rs

NoBody == CHOOSE b \in Bodies : b.kind = "unreadable"

ServerInit ==
    /\ env \in Envs
    /\ pc = "idle"
    /\ req = [body |-> NoBody, env |-> env]
    /\ calls = <<>>
    /\ content = <<>>
    /\ raws = <<>>
    /\ trace = <<>>
    /\ resp = NoResp

\* the operator sets or removes the credential of the running process
SetEnv ==
    /\ \E e \in Envs : e # env /\ env' = e
    /\ UNCHANGED <<pc, req, calls, content, raws, trace, resp>>
    /\ UNCHANGED cvars

\* a request arrives; the handler runs up to its first suspension
Post ==
    /\ pc = "idle"
    /\ \E b \in Bodies :
        /\ req' = [body |-> b, env |-> env]
        /\ Apply(Start(b, env))
    /\ content' = <<>>
    /\ raws' = <<>>
    /\ UNCHANGED env
    /\ UNCHANGED cvars

PrimaryReturns ==
    /\ pc = "awaitPrimary"
    /\ \E r \in Completions :
        /\ raws' = Received(raws, r)
        /\ content' = IF r.choices THEN StripFence(ContentOf(r)) ELSE content
        /\ Apply(AfterPrimary(r, calls, trace))
    /\ UNCHANGED <<env, req>>
    /\ UNCHANGED cvars

PrimaryThrows ==
    /\ pc = "awaitPrimary"
    /\ \E e \in Throwables : Apply(AfterThrow(e, calls, trace))
    /\ UNCHANGED <<env, req, content, raws>>
    /\ UNCHANGED cvars

RepairReturns ==
    /\ pc = "awaitRepair"
    /\ \E r \in Completions :
        /\ raws' = Received(raws, r)
        /\ Apply(AfterRepair(r, content, calls, trace))
    /\ UNCHANGED <<env, req, content>>
    /\ UNCHANGED cvars

RepairThrows ==
    /\ pc = "awaitRepair"
    /\ \E e \in Throwables : Apply(AfterThrow(e, calls, trace))
    /\ UNCHANGED <<env, req, content, raws>>
    /\ UNCHANGED cvars

\* the response has been sent: nothing of the invocation is kept
Return ==
    /\ pc = "done"
    /\ pc' = "idle"
    /\ req' = [body |-> NoBody, env |-> env]
    /\ calls' = <<>>
    /\ content' = <<>>
    /\ raws' = <<>>
    /\ trace' = <<>>
    /\ resp' = NoResp
    /\ UNCHANGED env
    /\ UNCHANGED cvars

Next ==
    \/ SetEnv
    \/ Return
    \/ Post
    \/ PrimaryReturns
    \/ PrimaryThrows
    \/ RepairReturns
    \/ RepairThrows


\* ============================================================== the page
MaxFiles == 3
MaxDownloads == 2

\* the ticket field when the analyze button is clicked: empty, blanks only,
\* a short text, a text longer than the server accepts
UiTickets ==
    {[blank |-> TRUE, len |-> 0], [blank |-> TRUE, len |-> 2],
     [blank |-> FALSE, len |-> 1], [blank |-> FALSE, len |-> MAX_TICKET + 1]}

\* an uploaded File: its name (with its extension), its declared type, the
\* text its extraction yields, and whether reading or extracting it fails
File(n, x, ty, l, f) ==
    [name |-> n, ext |-> x, type |-> ty, text |-> Slice(<<n>>, 0, l), fails |-> f]

UiFiles ==
    {File("r.docx", "docx", "", MAX_ATT + 1, f) : f \in BOOLEAN}
    \cup {File("a.log", "log", "", MAX_ATT, f) : f \in BOOLEAN}
    \cup {File("r.pdf", "pdf", "application/pdf", MAX_ATT - 1, TRUE),
          File("i.png", "png", "image/png", 1, FALSE)}

DOCX_MIME == "application/vnd.openxmlformats-officedocument.wordprocessingml.document"

Fragment(n, m, t) == [hasText |-> TRUE, name |-> n, mime |-> m, text |-> t]

\* `[Error reading ${file.name}: Could not extract text from ... file]`
Placeholder(f, what) == Slice(<<"[Error reading", f.name, what>>, 0, 1)

\* extractTextFromDocx, extractTextFromPdf: a failure is caught and becomes
\* the placeholder text
ExtractTextFromDocx(f) == IF f.fails THEN Placeholder(f, "DOCX") ELSE f.text
ExtractTextFromPdf(f) == IF f.fails THEN Placeholder(f, "PDF") ELSE f.text

\* file.type.startsWith('text/') || file.name.endsWith('.log') || ...
IsText(f) == f.type \in {"text/plain", "text/csv"} \/ f.ext \in {"log", "txt", "csv"}

Pending == [state |-> "pending", frag |-> Fragment("", "", Slice(<<>>, 0, 0))]
Skipped == [state |-> "skipped", frag |-> Fragment("", "", Slice(<<>>, 0, 0))]
Rejected == [state |-> "rejected", frag |-> Fragment("", "", Slice(<<>>, 0, 0))]
Settled(fr) == [state |-> "fragment", frag |-> fr]

\* lines 197-223: the callback of files.map for one file
Normalize(f) ==
    IF f.ext = "docx" THEN Settled(Fragment(f.name, DOCX_MIME, ExtractTextFromDocx(f)))
    ELSE IF f.ext = "pdf" THEN Settled(Fragment(f.name, "application/pdf", ExtractTextFromPdf(f)))
    ELSE IF IsText(f)
    THEN IF f.fails THEN Rejected
         ELSE Settled(Fragment(f.name, IF f.type # "" THEN f.type ELSE "text/plain", f.text))
    ELSE Skipped

\* the fragments in the opposite order of the files
FragmentsReversed(os) ==
    LET n == Len(os)
        r == [i \in 1..n |-> os[n + 1 - i]]
    IN  [k \in 1..Len(SelectSeq(r, LAMBDA o : o.state = "fragment")) |->
            SelectSeq(r, LAMBDA o : o.state = "fragment")[k].frag]

\* the array without the filter: a skipped file leaves its null behind
FragmentsUnfiltered(os) == [i \in 1..Len(os) |-> os[i].frag]

RECURSIVE Fragments(_)
\* attachments.filter(Boolean)
Fragments(os) ==
    IF os = <<>> THEN <<>>
    ELSE (IF Head(os).state = "fragment" THEN <<Head(os).frag>> ELSE <<>>)
         \o Fragments(Tail(os))

\* JSON.stringify({ ticket, attachments }) as the server reads it
ClientBody(t, os) ==
    [kind |-> "object",
     ticket |-> [type |-> "string", text |-> Slice(<<"ticket">>, 0, t.len)],
     attachments |-> [type |-> "array", items |-> Fragments(os)]]

NoError == [text |-> "", detail |-> NoMsg]
ErrorText(s, m) == [text |-> s, detail |-> m]

\* the report section reads every csf list and the severity as a string
Renders(v) == v.defined => (CSF_FUNCTIONS \subseteq v.csf /\ v.severity # "")

\* one invocation of downloadPDF, and what the last export did: a file
\* handed to the browser, an alert, or neither
PdfIdle == [pc |-> "idle"]
PdfRasterizing == [pc |-> "rasterizing"]

NoDoc == [imgHeight |-> 0, pages |-> <<>>]
NoOutcome == [kind |-> "none", ok |-> FALSE, alert |-> FALSE, doc |-> NoDoc]
CsvOutcome(ok) == [kind |-> "csv", ok |-> ok, alert |-> FALSE, doc |-> NoDoc]
PdfSaved(d) == [kind |-> "pdf", ok |-> TRUE, alert |-> FALSE, doc |-> d]
PdfFailed(al) == [kind |-> "pdf", ok |-> FALSE, alert |-> al, doc |-> NoDoc]

NoTicket == [blank |-> TRUE, len |-> 0]

ClientInit ==
    /\ page = "up"
    /\ cpc = "idle"
    /\ ticket = NoTicket
    /\ files = <<>>
    /\ outcomes = <<>>
    /\ loading = FALSE
    /\ analysis = NoValue
    /\ error = NoError
    /\ downloads = <<>>
    /\ pdf = PdfIdle
    /\ outcome = NoOutcome

Init == ServerInit /\ ClientInit

\* the handler ends through catch and finally: setError, setLoading(false);
\* the ticket and the files of this invocation are gone with it
Fail(e) ==
    /\ error' = e
    /\ loading' = FALSE
    /\ cpc' = "idle"
    /\ ticket' = NoTicket
    /\ files' = <<>>
    /\ outcomes' = <<>>

\* a field that accepts anything
NeverBlank(t) == FALSE

\* line 186: !ticket.trim()
IsBlank(t) == t.blank

\* a button that is never disabled
NeverDisabled == FALSE

\* line 515: disabled={loading}
Disabled == loading

\* a start that leaves the report of the previous run in place
SlotKeptAtStart(held) == held

\* line 193: setAnalysis(null)
SlotAtStart(held) == NoValue

\* lines 185-196: a click on the analyze button, enabled while not loading
HandleAnalyze ==
    /\ page = "up"
    /\ ~Disabled
    /\ \E t \in UiTickets, fs \in SeqsUpTo(UiFiles, MaxFiles) :
        IF IsBlank(t)
        THEN /\ error' = ErrorText("Please enter a ticket description", NoMsg)
             /\ UNCHANGED <<cpc, ticket, files, outcomes, loading, analysis, downloads, outcome>>
        ELSE /\ ticket' = t
             /\ files' = fs
             /\ loading' = TRUE
             /\ error' = NoError
             /\ analysis' = SlotAtStart(analysis)
             /\ downloads' = <<>>
             /\ outcome' = NoOutcome
             /\ outcomes' = [i \in 1..Len(fs) |-> Pending]
             /\ cpc' = "normalizing"
    /\ UNCHANGED <<page, pdf>>
    /\ UNCHANGED svars

\* one file's callback completes; a rejection rejects Promise.all at once
FileSettles ==
    /\ cpc = "normalizing"
    /\ \E i \in 1..Len(files) :
        /\ outcomes[i] = Pending
        /\ LET o == Normalize(files[i])
           IN  IF o = Rejected
               THEN /\ Fail(ErrorText("read failed", NoMsg))
                    /\ UNCHANGED analysis
               ELSE /\ outcomes' = [outcomes EXCEPT ![i] = o]
                    /\ UNCHANGED <<cpc, ticket, files, loading, analysis, error>>
    /\ UNCHANGED <<page, downloads, pdf, outcome>>
    /\ UNCHANGED svars

\* Promise.race in place of Promise.all: the first outcome is enough
AnySettled(os) == os = <<>> \/ \E i \in 1..Len(os) : os[i].state \in {"fragment", "skipped"}

\* Promise.all resolves when every callback has returned
AllSettled(os) == \A i \in 1..Len(os) : os[i].state \in {"fragment", "skipped"}

\* lines 224-230: Promise.all has resolved; the request reaches the server,
\* which runs POST up to its first suspension
Fetch ==
    /\ cpc = "normalizing"
    /\ AllSettled(outcomes)
    /\ pc = "idle"
    /\ LET b == ClientBody(ticket, outcomes)
       IN  /\ req' = [body |-> b, env |-> env]
           /\ Apply(Start(b, env))
    /\ content' = <<>>
    /\ raws' = <<>>
    /\ cpc' = "fetching"
    /\ UNCHANGED <<page, ticket, files, outcomes, loading, analysis, error, downloads, pdf, outcome>>
    /\ UNCHANGED env

\* fetch rejects: the request never reaches the server
FetchFails ==
    /\ cpc = "normalizing"
    /\ AllSettled(outcomes)
    /\ Fail(ErrorText("Failed to fetch", NoMsg))
    /\ UNCHANGED <<page, analysis, downloads, pdf, outcome>>
    /\ UNCHANGED svars

\* lines 232-244: the response arrives
Receive ==
    /\ cpc = "fetching"
    /\ pc = "done"
    /\ IF resp.status \in 200..299
       THEN /\ analysis' = resp.analysis
            /\ page' = IF Renders(resp.analysis) THEN page ELSE "crashed"
            /\ UNCHANGED error
       ELSE /\ error' = ErrorText("Analysis failed: ", resp.error)
            /\ UNCHANGED <<analysis, page>>
    /\ loading' = FALSE
    /\ cpc' = "idle"
    /\ ticket' = NoTicket
    /\ files' = <<>>
    /\ outcomes' = <<>>
    /\ pc' = "idle"
    /\ req' = [body |-> NoBody, env |-> env]
    /\ calls' = <<>>
    /\ content' = <<>>
    /\ raws' = <<>>
    /\ trace' = <<>>
    /\ resp' = NoResp
    /\ UNCHANGED <<env, downloads, pdf, outcome>>

\* ---------------------------------------------------------- the exports
MaxActions == 2
MaxImgHeight == 540

\* the action items of the reports the exports are exercised on: all fields
\* present; optional fields absent and a title with a comma and a newline; a
\* title with a double quote and an owner that is the empty string
ActionValues ==
    {PlainAction,
     ActionItem(<<"a", "c", "n", "b">>, Absent, Absent, Absent),
     ActionItem(<<"a", "q", "b">>, Present(<<>>), Absent, Present(<<"24h">>))}

ExportReports == {ReportWith(CSF_FUNCTIONS, "High", a) : a \in SeqsUpTo(ActionValues, MaxActions)}

\* a.owner with no fallback: the template prints the word undefined
OrUndefined(o) == IF o.has THEN o.s ELSE <<"undefined">>

\* a.owner || '': an absent field and the empty string both give ''
OrEmpty(o) == IF o.has /\ o.s # <<>> THEN o.s ELSE <<>>

\* lines 250-257: the header and one array of four cells per action
CsvRows(a) ==
    <<<<(<<"Title">>), (<<"Owner">>), (<<"Priority">>), (<<"Due Window">>)>>>>
    \o [i \in 1..Len(a.actions) |->
          <<a.actions[i].title, OrEmpty(a.actions[i].owner),
            OrEmpty(a.actions[i].priority), OrEmpty(a.actions[i].due_window)>>]

\* `"${cell}"`: the cell between two double quotes, as it is
QuoteCell(cell) == <<"q">> \o cell \o <<"q">>

RECURSIVE Join(_, _)
\* Array.prototype.join
Join(parts, sep) ==
    IF parts = <<>> THEN <<>>
    ELSE IF Len(parts) = 1 THEN parts[1]
    ELSE parts[1] \o sep \o Join(Tail(parts), sep)

\* line 258: .map(row => row.map(cell => `"${cell}"`).join(',')).join('\n')
CsvText(rows) ==
    Join([i \in 1..Len(rows) |->
            Join([j \in 1..Len(rows[i]) |-> QuoteCell(rows[i][j])], <<"c">>)],
         <<"n">>)

\* an export that takes the rows out of the report it writes
DownloadCSVConsuming ==
    /\ page = "up"
    /\ analysis.defined
    /\ Len(downloads) < MaxDownloads
    /\ downloads' = Append(downloads, [file |-> "incident-actions.csv", of |-> analysis,
                                       text |-> CsvText(CsvRows(analysis))])
    /\ analysis' = [analysis EXCEPT !.actions = <<>>]
    /\ outcome' = CsvOutcome(TRUE)
    /\ UNCHANGED <<page, cpc, ticket, files, outcomes, loading, error, pdf>>
    /\ UNCHANGED svars

\* lines 247-267: the CSV button, shown while a report is held; the file is
\* handed to the browser by the click on the temporary link
DownloadCSV ==
    /\ page = "up"
    /\ analysis.defined
    /\ Len(downloads) < MaxDownloads
    /\ downloads' = Append(downloads, [file |-> "incident-actions.csv", of |-> analysis,
                                       text |-> CsvText(CsvRows(analysis))])
    /\ outcome' = CsvOutcome(TRUE)
    /\ UNCHANGED <<page, cpc, ticket, files, outcomes, loading, analysis, error, pdf>>
    /\ UNCHANGED svars

\* lines 260-266 throw (the Blob, the object URL or the link): downloadCSV
\* has no catch and sets no state, the exception leaves the click handler
DownloadCSVThrows ==
    /\ page = "up"
    /\ analysis.defined
    /\ outcome' = CsvOutcome(FALSE)
    /\ UNCHANGED <<page, cpc, ticket, files, outcomes, loading, analysis, error, downloads, pdf>>
    /\ UNCHANGED svars

\* lines 298-305: the canvas html2canvas resolves to, 360 pixels wide and of
\* any even height, so that the height of the image is a whole number
Canvases == {[width |-> 360, height |-> 2 * h] : h \in 1..MaxImgHeight}

\* lines 313-318: an A4 page in millimetres, and the margins around the image
A4 == [width |-> 210, height |-> 297]
margin == 15
imgWidth == A4.width - (margin * 2)
pageHeight == A4.height - (margin * 2)

\* line 319
ImgHeight(canvas) == (canvas.height * imgWidth) \div canvas.width

RECURSIVE AddPages(_, _, _)
\* lines 329-334: while (heightLeft >= 0) { position = ...; addPage; addImage }
AddPages(pages, heightLeft, imgHeight) ==
    IF heightLeft >= 0
    THEN AddPages(Append(pages, margin - (imgHeight - heightLeft)),
                  heightLeft - pageHeight, imgHeight)
    ELSE pages

\* lines 319-334: the document: for each page, the y coordinate at which the
\* whole image is placed on it
PdfDoc(canvas) ==
    LET imgHeight == ImgHeight(canvas)
    IN  [imgHeight |-> imgHeight,
         pages |-> AddPages(<<margin>>, imgHeight - pageHeight, imgHeight)]

\* line 270: the view of the report is mounted exactly while a report is held
ViewMounted == page = "up" /\ analysis.defined

\* lines 269-298: the PDF button, up to the await of html2canvas; without a
\* report or its view the handler returns at line 270
DownloadPDF ==
    /\ ViewMounted
    /\ pdf = PdfIdle
    /\ pdf' = PdfRasterizing
    /\ outcome' = NoOutcome
    /\ UNCHANGED <<page, cpc, ticket, files, outcomes, loading, analysis, error, downloads>>
    /\ UNCHANGED svars

\* lines 298-338: the canvas arrives, the pages are laid out, pdf.save
CanvasReturns ==
    /\ pdf = PdfRasterizing
    /\ \E canvas \in Canvases : outcome' = PdfSaved(PdfDoc(canvas))
    /\ pdf' = PdfIdle
    /\ UNCHANGED <<page, cpc, ticket, files, outcomes, loading, analysis, error, downloads>>
    /\ UNCHANGED svars

\* a catch that fails in silence
CanvasThrowsUnreported ==
    /\ pdf = PdfRasterizing
    /\ outcome' = PdfFailed(FALSE)
    /\ pdf' = PdfIdle
    /\ UNCHANGED <<page, cpc, ticket, files, outcomes, loading, analysis, error, downloads>>
    /\ UNCHANGED svars

\* a catch that discards the report it could not export
CanvasThrowsDiscards ==
    /\ pdf = PdfRasterizing
    /\ outcome' = PdfFailed(TRUE)
    /\ pdf' = PdfIdle
    /\ analysis' = NoValue
    /\ UNCHANGED <<page, cpc, ticket, files, outcomes, loading, error, downloads>>
    /\ UNCHANGED svars

\* lines 339-342: html2canvas or a later statement of the try block throws:
\* console.error and alert, nothing is saved
CanvasThrows ==
    /\ pdf = PdfRasterizing
    /\ outcome' = PdfFailed(TRUE)
    /\ pdf' = PdfIdle
    /\ UNCHANGED <<page, cpc, ticket, files, outcomes, loading, analysis, error, downloads>>
    /\ UNCHANGED svars

\* a page that holds a report, as left by a run that reached Parsed
ExportInit ==
    /\ ServerInit
    /\ page = "up"
    /\ cpc = "idle"
    /\ ticket = NoTicket
    /\ files = <<>>
    /\ outcomes = <<>>
    /\ loading = FALSE
    /\ analysis \in ExportReports
    /\ error = NoError
    /\ downloads = <<>>
    /\ pdf = PdfIdle
    /\ outcome = NoOutcome

ExportNext ==
    \/ DownloadCSV
    \/ DownloadCSVThrows
    \/ DownloadPDF
    \/ CanvasReturns
    \/ CanvasThrows

PageNext ==
    \/ SetEnv
    \/ HandleAnalyze
    \/ FileSettles
    \/ Fetch
    \/ FetchFails
    \/ PrimaryReturns
    \/ PrimaryThrows
    \/ RepairReturns
    \/ RepairThrows
    \/ Receive
    \/ DownloadCSV
    \/ DownloadCSVThrows

\* the server alone, serving any client
Spec == Init /\ [][Next]_vars

\* the server when every call of the capability returns or throws
LiveSpec ==
    /\ Init
    /\ [][Next]_vars
    /\ WF_vars(PrimaryReturns \/ PrimaryThrows)
    /\ WF_vars(RepairReturns \/ RepairThrows)

\* the page and the server behind it
PageSpec == Init /\ [][PageNext]_vars

\* the exports of a report the page holds
ExportSpec == ExportInit /\ [][ExportNext]_vars

\* ============================================================ properties
Last(s) == s[Len(s)]

Kinds(cs) == [i \in 1..Len(cs) |-> cs[i].kind]

\* the cleaned text of the k-th completion received in this run
Cleaned(k) == StripFence(ContentOf(raws[k]))

\* C1: in every run at most two extraction calls are issued, one primary and
\* at most one repair, and the repair call is issued only after the response
\* of the primary call has been received.
C1_AtMostTwoCalls ==
    /\ Kinds(calls) \in {<<>>, <<"primary">>, <<"primary", "repair">>}
    /\ Len(calls) = 2 => Len(raws) >= 1
    /\ Len(raws) <= Len(calls)

C1_Witness ==
    /\ pc = "done"
    /\ Len(calls) = 2
    /\ Len(raws) = 2
    /\ resp.status = 500

\* C2: when the cleaned primary response does not parse, exactly one repair
\* call is issued and its input is that cleaned text; a repair response that
\* parses (after cleaning) is the report returned, any other end of the
\* repair call is a failure, and no further call is issued.
C2_RepairPath ==
    (Len(raws) >= 1 /\ ~JsonParse(Cleaned(1)).ok) =>
        /\ Kinds(calls) = <<"primary", "repair">>
        /\ calls[2].text = Cleaned(1)
        /\ Len(raws) = 2 =>
            /\ pc = "done"
            /\ IF JsonParse(Cleaned(2)).ok
               THEN resp = AnalysisResponse(JsonParse(Cleaned(2)).value)
               ELSE resp.status = 500 /\ resp.analysis = NoValue
        /\ (pc = "done" /\ Len(raws) = 1) => (resp.status = 500 /\ resp.analysis = NoValue)

C2_Witness ==
    /\ pc = "done"
    /\ Len(raws) = 2
    /\ ContentOf(raws[1]) # Cleaned(1)
    /\ ~JsonParse(Cleaned(1)).ok
    /\ Cleaned(1) # <<>>
    /\ resp.status = 200

\* C3: when the primary response is a payload that satisfies the
\* IncidentReport shape, no repair call is issued and the report returned is
\* that payload.
C3_ValidPayloadUnchanged ==
    \A tok \in PayloadTokens :
        (/\ IsIncidentReport(PayloadValue(tok))
         /\ Len(raws) >= 1
         /\ raws[1] = [choices |-> TRUE, hasContent |-> TRUE, text |-> <<tok>>]) =>
            /\ pc = "done"
            /\ Kinds(calls) = <<"primary">>
            /\ Len(raws) = 1
            /\ resp = AnalysisResponse(PayloadValue(tok))

C3_Witness ==
    /\ pc = "done"
    /\ raws = <<[choices |-> TRUE, hasContent |-> TRUE, text |-> <<"V">>]>>
    /\ resp.status = 200

\* C4: a request whose ticket is missing, not a string, empty or longer than
\* 10,000 characters is answered with a 400-class error and no extraction
\* call is issued; a ticket of exactly 10,000 characters is not rejected.
BadTicket(t) ==
    \/ t.type # "string"
    \/ t.text.len = 0
    \/ t.text.len > 10000

ProtocolSteps ==
    {<<"Requested", "RawReceived">>,
     <<"RawReceived", "Parsed">>,
     <<"RawReceived", "RepairRequested">>,
     <<"RepairRequested", "Parsed">>,
     <<"RepairRequested", "Failed">>}

Terminal(tr) == tr # <<>> /\ Last(tr) \in {"Parsed", "Failed"}

FollowsSteps(tr, steps) ==
    /\ tr # <<>> => tr[1] = "Requested"
    /\ \A i \in 1..(Len(tr) - 1) : <<tr[i], tr[i + 1]>> \in steps
    /\ \A i \in 1..(Len(tr) - 1) : tr[i] \notin {"Parsed", "Failed"}

\* C5 as stated: a run moves only along Requested -> RawReceived ->
\* {Parsed | RepairRequested} -> {Parsed | Failed}; Failed is reached only
\* from RepairRequested.
C5_OnlySpecifiedSteps == FollowsSteps(trace, ProtocolSteps)

\* C5 (amended): a run moves only along the steps above or from Requested
\* directly to Failed, which happens exactly when the primary call fails (it
\* throws, or resolves to a response without choices) before any text is
\* received; Parsed and Failed are terminal: the
\* handler has answered, and nothing but its return follows.
C5_ProtocolSteps ==
    [][/\ FollowsSteps(trace', ProtocolSteps \cup {<<"Requested", "Failed">>})
       /\ trace' = <<"Requested", "Failed">> => (raws' = <<>> /\ Len(calls') = 1)
       /\ Terminal(trace') => (pc' = "done" /\ resp'.status \in {200, 500})
       /\ (trace' # <<>> /\ ~Terminal(trace')) => pc' \in {"awaitPrimary", "awaitRepair"}
       /\ Terminal(trace) =>
            \/ UNCHANGED <<pc, req, calls, content, raws, trace, resp>>
            \/ pc' = "idle" /\ calls' = <<>> /\ trace' = <<>>]_vars

C5_Witness ==
    /\ trace = <<"Requested", "RawReceived", "RepairRequested", "Failed">>
    /\ pc = "done"

\* C7: the text of every attachment in the prompt is exactly the first
\* min(length, 6000) characters of that attachment's text, whatever the other
\* attachments and the ticket are.
C7_AttachmentCap ==
    (calls # <<>> /\ req.body.attachments.type = "array") =>
        LET items == req.body.attachments.items
            prompt == calls[1].prompt
        IN  /\ Len(prompt) = 1 + Len(items)
            /\ \A i \in 1..Len(items) :
                /\ prompt[i + 1].text.src = items[i].text.src
                /\ prompt[i + 1].text.from = items[i].text.from
                /\ prompt[i + 1].text.len =
                     (IF items[i].text.len < 6000 THEN items[i].text.len ELSE 6000)

C7_Witness ==
    /\ calls # <<>>
    /\ req.body.attachments.type = "array"
    /\ Len(req.body.attachments.items) = 2
    /\ req.body.attachments.items[1].text.len > 6000
    /\ req.body.attachments.items[2].text.len < 6000
    /\ req.body.ticket.text.len = 10000

ConfigError == ErrorResponse(500, Msg("OpenAI API key not configured"))

GoodTicket(t) == t.type = "string" /\ t.text.len \in 1..10000

\* an element of the attachments array has no text to take a substring of
Malformed(a) ==
    a.type = "array" /\ \E i \in 1..Len(a.items) : ~a.items[i].hasText

\* a request with a readable body and a valid ticket, made while the
\* credential was absent
NoCredentialRun ==
    /\ pc # "idle"
    /\ req.body.kind = "object"
    /\ GoodTicket(req.body.ticket)
    /\ ~req.env.OPENAI_API_KEY

\* C8 as stated: with the credential absent, every request with a valid
\* ticket is answered with the 500-class configuration error, and no
\* extraction call is issued.
C8_AlwaysConfigError ==
    NoCredentialRun => (pc = "done" /\ resp = ConfigError /\ calls = <<>>)

\* C8 (amended): with the credential absent at the time of the request,
\* every request with a valid ticket is answered with a 500-class error and
\* no extraction call is issued; the error is the configuration error unless
\* an attachment without text made prompt assembly throw first.
C8_NoCredential ==
    NoCredentialRun =>
        /\ pc = "done"
        /\ resp.status \in 500..599
        /\ calls = <<>>
        /\ trace = <<>>
        /\ ~Malformed(req.body.attachments) => resp = ConfigError

\* the request was answered while the credential was absent; it has been
\* set since
C8_Witness ==
    /\ NoCredentialRun
    /\ env.OPENAI_API_KEY
    /\ Len(req.body.attachments.items) = 2
    /\ resp = ConfigError

ExtractionFailed == trace # <<>> /\ Last(trace) = "Failed"

FailsValidation == req.body.kind = "object" /\ BadTicket(req.body.ticket)

\* C9 as stated: the status is 400-class exactly when the request fails
\* input validation and 500-class exactly when the credential is missing or
\* extraction fails; a terminal extraction failure carries the parse error
\* message; every other run answers with { analysis }.
C9_StatusExactly ==
    pc = "done" =>
        /\ resp.status \in 400..499 <=> FailsValidation
        /\ resp.status \in 500..599 <=>
             (~FailsValidation /\ (~req.env.OPENAI_API_KEY \/ ExtractionFailed))
        /\ (ExtractionFailed /\ Len(raws) = 2) => resp.error = SyntaxErrorMsg(Cleaned(2))
        /\ resp.status \notin 400..599 =>
             (resp.status = 200 /\ resp.error = NoMsg /\ resp.analysis.defined)

\* C9 (amended): the status is 400-class exactly when the body is readable
\* and its ticket fails validation; it is 500-class exactly when the body
\* cannot be read, or the ticket is valid and prompt assembly throws, the
\* credential is missing or extraction fails; a failed repair parse carries
\* the message of that parse error; every other run answers with
\* { analysis }, the value parsed.
C9_Status ==
    pc = "done" =>
        /\ resp.status \in 400..499 <=> FailsValidation
        /\ resp.status \in 500..599 <=>
             \/ req.body.kind # "object"
             \/ /\ req.body.kind = "object"
                /\ GoodTicket(req.body.ticket)
                /\ \/ Malformed(req.body.attachments)
                   \/ ~req.env.OPENAI_API_KEY
                   \/ ExtractionFailed
        /\ (ExtractionFailed /\ Len(raws) = 2) => resp.error = SyntaxErrorMsg(Cleaned(2))
        /\ resp.status \in 400..599 => (resp.error # NoMsg /\ resp.analysis = NoValue)
        /\ resp.status \notin 400..599 =>
             /\ resp.status = 200
             /\ resp.error = NoMsg
             /\ resp.analysis = JsonParse(Cleaned(Len(raws))).value

C9_Witness ==
    /\ pc = "done"
    /\ ExtractionFailed
    /\ Len(raws) = 2
    /\ Cleaned(2) # <<>>
    /\ Cleaned(2) # ContentOf(raws[2])
    /\ resp.status = 500

Fenced(o, tok) == [choices |-> TRUE, hasContent |-> TRUE, text |-> o \o <<tok>> \o <<"nl", "F">>]

\* C10: a response (primary or repair) that is a payload between a leading
\* and a trailing code fence is parsed as the payload alone, so the fence
\* causes no repair call and no failure.
C10_FenceStripped ==
    \A tok \in PayloadTokens : \A o \in {<<"F", "j", "nl">>, <<"F", "nl">>} :
        /\ (Len(raws) >= 1 /\ raws[1] = Fenced(o, tok)) =>
             /\ content = <<tok>>
             /\ Kinds(calls) = <<"primary">>
             /\ resp = AnalysisResponse(PayloadValue(tok))
        /\ (Len(raws) = 2 /\ raws[2] = Fenced(o, tok)) =>
             resp = AnalysisResponse(PayloadValue(tok))

\* the same for a fence whose opener carries the json tag: this part holds
C10_JsonFenceStripped ==
    \A tok \in PayloadTokens : \A o \in {<<"F", "j", "nl">>, <<"F", "j", "sp", "nl">>} :
        /\ (Len(raws) >= 1 /\ raws[1] = Fenced(o, tok)) =>
             /\ content = <<tok>>
             /\ Kinds(calls) = <<"primary">>
             /\ resp = AnalysisResponse(PayloadValue(tok))
        /\ (Len(raws) = 2 /\ raws[2] = Fenced(o, tok)) =>
             resp = AnalysisResponse(PayloadValue(tok))

\* C6: a decoded payload that violates an IncidentReport invariant is never
\* returned as the analysis, never stored in the current-report slot of the
\* page, and never exported.
C6_OnlyValidReports ==
    /\ resp.status = 200 => IsIncidentReport(resp.analysis)
    /\ analysis.defined => IsIncidentReport(analysis)
    /\ \A i \in 1..Len(downloads) : IsIncidentReport(downloads[i].of)

\* the same, for the export alone
C6_OnlyValidReportsExported ==
    \A i \in 1..Len(downloads) : IsIncidentReport(downloads[i].of)

\* ------------------------------------------------ the files of one run
\* a file of a type the page normalizes: DOCX, PDF or a text type
Supported(f) == f.ext \in {"docx", "pdf"} \/ IsText(f)

\* a fragment whose text is the placeholder naming the file and the failure
IsPlaceholder(fr, f) ==
    /\ fr.name = f.name
    /\ fr.text.src[1] = "[Error reading"
    /\ fr.text.src[2] = f.name

\* the supported files among fs, in their order
RECURSIVE SupportedOf(_)
SupportedOf(fs) ==
    IF fs = <<>> THEN <<>>
    ELSE (IF Supported(Head(fs)) THEN <<Head(fs)>> ELSE <<>>) \o SupportedOf(Tail(fs))

RequestSent == cpc = "fetching"

\* C11: a failure while extracting one file, of any supported type, never
\* aborts the sibling extractions or the run: while files are normalized the
\* run ends only by sending the analyze request (or by the request itself
\* failing once every file has its outcome), and a failing file that has
\* settled contributes a placeholder fragment naming the file.
C11_FailureNeverAborts ==
    [][(cpc = "normalizing" /\ \E i \in 1..Len(files) : Supported(files[i]) /\ files[i].fails) =>
         /\ cpc' = "idle" => AllSettled(outcomes)
         /\ cpc' # "idle" =>
              \A i \in 1..Len(files') :
                  (files'[i].fails /\ Supported(files'[i]) /\ outcomes'[i] # Pending) =>
                      /\ outcomes'[i].state = "fragment"
                      /\ IsPlaceholder(outcomes'[i].frag, files'[i])]_vars

\* the same for the two extractors that catch their failure: this part holds
C11_ExtractorFailureContained ==
    [][(cpc = "normalizing" /\ \A i \in 1..Len(files) : files[i].fails => files[i].ext \in {"docx", "pdf"}) =>
         /\ cpc' = "idle" => AllSettled(outcomes)
         /\ cpc' # "idle" =>
              \A i \in 1..Len(files') :
                  (files'[i].fails /\ outcomes'[i] # Pending) =>
                      /\ outcomes'[i].state = "fragment"
                      /\ IsPlaceholder(outcomes'[i].frag, files'[i])]_vars

\* C12: the attachments of the request are exactly one fragment per supported
\* file, in the order of the files, and none for an unsupported file; an
\* unsupported file sets no error and does not stop the run.
C12_OneFragmentPerSupportedFile ==
    /\ RequestSent =>
         LET sent == req.body.attachments.items
             sup == SupportedOf(files)
         IN  /\ Len(sent) = Len(sup)
             /\ \A k \in 1..Len(sent) : sent[k].name = sup[k].name /\ sent[k].hasText
    /\ (cpc # "idle" /\ \E i \in 1..Len(files) : ~Supported(files[i])) => error = NoError
    /\ \A i \in 1..Len(outcomes) :
         (cpc # "idle" /\ outcomes[i] # Pending) =>
             (outcomes[i].state = "fragment" <=> Supported(files[i]))

\* three files, one of them unsupported: two fragments are sent
C12_Witness ==
    /\ RequestSent
    /\ Len(files) = 3
    /\ Len(SupportedOf(files)) = 2
    /\ Len(req.body.attachments.items) = 2
    /\ error = NoError

\* C13: under every interleaving of the files' normalizations, the analyze
\* request is sent only after every file has reached its outcome: no request
\* is in flight, and the server has received nothing, while any is pending.
C13_RequestAfterAllSettled ==
    /\ (RequestSent \/ pc # "idle" \/ req.body # NoBody) =>
         /\ Len(outcomes) = Len(files)
         /\ \A i \in 1..Len(outcomes) : outcomes[i] # Pending
    /\ (\E i \in 1..Len(outcomes) : outcomes[i] = Pending) =>
         (cpc = "normalizing" /\ pc = "idle" /\ calls = <<>>)

\* a request in flight for two files that both reached an outcome
C13_Witness ==
    /\ RequestSent
    /\ Len(files) >= 2
    /\ \A i \in 1..Len(outcomes) : outcomes[i] # Pending
    /\ Len(calls) >= 1

\* C14 as stated: the current-report slot changes only once the run has
\* reached Parsed or Failed, never when a run starts or while it is in flight.
C14_WrittenOnlyAfterTerminal ==
    [][analysis' # analysis => (pc = "done" /\ Terminal(trace))]_vars

\* C14: the slot is emptied when a run starts and stays empty while the run
\* is in flight; it receives a report only when the response of a run that
\* reached Parsed arrives, and a run that failed leaves it empty.
C14_SlotWrites ==
    [][/\ analysis' # analysis =>
            \/ cpc = "idle" /\ cpc' = "normalizing" /\ analysis' = NoValue
            \/ /\ cpc = "fetching" /\ cpc' = "idle"
               /\ pc = "done" /\ trace # <<>> /\ Last(trace) = "Parsed"
               /\ analysis' = resp.analysis
       /\ cpc' # "idle" => analysis' = NoValue
       /\ (cpc = "fetching" /\ cpc' = "idle" /\ pc = "done" /\ ExtractionFailed) =>
            analysis' = NoValue]_vars

\* a report is held after a run has ended
C14_Witness == cpc = "idle" /\ ~loading /\ analysis.defined /\ error = NoError

\* ------------------------------------------------ the delimited-text export
\* a reader of quoted delimited text (RFC 4180): fields are separated by
\* commas and rows by newlines; a quoted field may hold commas and newlines,
\* and a double quote inside it is written as two double quotes
RECURSIVE Read(_, _, _, _, _, _)
Read(t, i, st, cell, row, rows) ==
    IF i > Len(t)
    THEN IF st = "quoted" THEN [ok |-> FALSE, rows |-> <<>>]
         ELSE [ok |-> TRUE, rows |-> Append(rows, Append(row, cell))]
    ELSE LET ch == t[i]
         IN  CASE st = "quoted" /\ ch = "q" -> Read(t, i + 1, "closing", cell, row, rows)
               [] st = "quoted" /\ ch # "q" -> Read(t, i + 1, "quoted", Append(cell, ch), row, rows)
               [] st = "closing" /\ ch = "q" -> Read(t, i + 1, "quoted", Append(cell, ch), row, rows)
               [] st = "start" /\ ch = "q" -> Read(t, i + 1, "quoted", cell, row, rows)
               [] st # "quoted" /\ ch = "c" -> Read(t, i + 1, "start", <<>>, Append(row, cell), rows)
               [] st # "quoted" /\ ch = "n" ->
                    Read(t, i + 1, "start", <<>>, <<>>, Append(rows, Append(row, cell)))
               [] st = "closing" /\ ch \notin {"q", "c", "n"} -> [ok |-> FALSE, rows |-> <<>>]
               [] st = "bare" /\ ch = "q" -> [ok |-> FALSE, rows |-> <<>>]
               [] OTHER -> Read(t, i + 1, "bare", Append(cell, ch), row, rows)

ReadCsv(t) == Read(t, 1, "start", <<>>, <<>>, <<>>)

\* the value of an optional field as the export is to show it
Shown(o) == IF o.has THEN o.s ELSE <<>>

\* the rows the export of a report is to hold
ExpectedRows(a) ==
    <<<<(<<"Title">>), (<<"Owner">>), (<<"Priority">>), (<<"Due Window">>)>>>>
    \o [i \in 1..Len(a.actions) |->
          <<a.actions[i].title, Shown(a.actions[i].owner),
            Shown(a.actions[i].priority), Shown(a.actions[i].due_window)>>]

HeaderLine ==
    <<"q", "Title", "q", "c", "q", "Owner", "q", "c",
      "q", "Priority", "q", "c", "q", "Due Window", "q">>

HasQuote(x) == \E k \in 1..Len(x) : x[k] = "q"

QuoteFree(a) ==
    \A i \in 1..Len(a.actions) :
        /\ ~HasQuote(a.actions[i].title)
        /\ ~HasQuote(a.actions[i].owner.s)
        /\ ~HasQuote(a.actions[i].priority.s)
        /\ ~HasQuote(a.actions[i].due_window.s)

\* C15: the delimited-text export is the header row Title, Owner, Priority,
\* Due Window followed by exactly one row per action, in the order of the
\* actions; an absent owner, priority or due_window is the empty string; a
\* report without actions gives the header row alone.  (Read back here for
\* the reports whose fields hold no double quote; C16 is about those.)
C15_HeaderAndOneRowPerAction ==
    \A d \in 1..Len(downloads) :
        LET a == downloads[d].of
            text == downloads[d].text
        IN  /\ Len(text) >= Len(HeaderLine)
            /\ SubSeq(text, 1, Len(HeaderLine)) = HeaderLine
            /\ a.actions = <<>> => text = HeaderLine
            /\ QuoteFree(a) =>
                 LET rd == ReadCsv(text)
                 IN  /\ rd.ok
                     /\ Len(rd.rows) = 1 + Len(a.actions)
                     /\ rd.rows = ExpectedRows(a)

\* an export of two actions, one of them with its optional fields absent
C15_Witness ==
    \E d \in 1..Len(downloads) :
        LET a == downloads[d].of
        IN  /\ QuoteFree(a)
            /\ Len(a.actions) = 2
            /\ \E i \in 1..2 : ~a.actions[i].owner.has /\ ~a.actions[i].due_window.has
            /\ \E i \in 1..2 : a.actions[i].owner.has

\* the export of a report without actions
C15_HeaderOnly ==
    \E d \in 1..Len(downloads) : downloads[d].of.actions = <<>> /\ downloads[d].text = HeaderLine

\* C16: every field is quote-escaped on its own: whatever the values of the
\* fields, one holding a double quote, a comma or a newline included, reading
\* the export back as quoted delimited text gives the same rows, fields and
\* values.
C16_RoundTrip ==
    \A d \in 1..Len(downloads) :
        ReadCsv(downloads[d].text) = [ok |-> TRUE, rows |-> ExpectedRows(downloads[d].of)]

\* ------------------------------------------------------ the paginated export
Max(a, b) == IF a > b THEN a ELSE b

Saved == outcome.kind = "pdf" /\ outcome.ok

\* the rows of the image that page k shows: the image is placed whole at
\* pages[k] and the page shows what falls between its top and its bottom edge
ShownRows(doc, k) ==
    [from |-> Max(0, 0 - doc.pages[k]),
     to |-> Min(doc.imgHeight, A4.height - doc.pages[k])]

CeilDiv(a, b) == (a + b - 1) \div b

\* C17: whatever the height of the content, the image regions shown by
\* successive pages neither overlap nor leave a gap: page k+1 starts exactly
\* where page k ended.
C17_PagesTile ==
    Saved =>
        \A k \in 1..(Len(outcome.doc.pages) - 1) :
            ShownRows(outcome.doc, k + 1).from = ShownRows(outcome.doc, k).to

\* what the code does guarantee: the image moves up by one page height from
\* each page to the next
C17_OffsetsAdvance ==
    Saved =>
        /\ outcome.doc.pages[1] = margin
        /\ \A k \in 1..(Len(outcome.doc.pages) - 1) :
            outcome.doc.pages[k + 1] = outcome.doc.pages[k] - pageHeight

\* C18: a page beyond the first is added only when the content is higher than
\* one page height; content of at most one page height, or of an exact
\* multiple of it, gets no trailing page without content: the number of pages
\* is the content height divided by the page height, rounded up.
C18_PageCount ==
    Saved =>
        /\ Len(outcome.doc.pages) = CeilDiv(outcome.doc.imgHeight, pageHeight)
        /\ Len(outcome.doc.pages) > 1 => outcome.doc.imgHeight > pageHeight

\* the same for a content height that is no multiple of the page height:
\* this part holds
C18_PageCountOffMultiples ==
    (Saved /\ outcome.doc.imgHeight % pageHeight # 0) =>
        /\ Len(outcome.doc.pages) = CeilDiv(outcome.doc.imgHeight, pageHeight)
        /\ Len(outcome.doc.pages) > 1 => outcome.doc.imgHeight > pageHeight

\* an export has just failed
ExportFailed == outcome.kind \in {"csv", "pdf"} /\ ~outcome.ok

\* C19: a failure of an export changes neither the current report nor the
\* error and loading state: the step in which a PDF or CSV export fails
\* leaves all three as they were, and afterwards the same report is held and
\* both exports can be invoked on it again.
C19_FailureKeepsReport ==
    [][(ExportFailed' /\ outcome' # outcome) =>
         /\ analysis.defined
         /\ analysis' = analysis
         /\ error' = error
         /\ loading' = loading
         /\ page' = "up"
         /\ ViewMounted'
         /\ outcome'.kind = "pdf" => pdf' = PdfIdle]_vars

\* a CSV export after a failed one, and a failed PDF export
C19_Witness ==
    /\ ExportFailed
    /\ outcome.kind = "pdf"
    /\ analysis.defined
    /\ Len(downloads) >= 1

C19_CsvFailed == ExportFailed /\ outcome.kind = "csv" /\ analysis.defined

C20_Saved == Saved /\ Len(outcome.doc.pages) = 3

\* C21: the delimited-text export, invoked any number of times on the same
\* held report, gives the same output each time and leaves the report as it
\* was: the step that writes an export does not change the report, and its
\* text equals the text of every earlier export while that report was held.
C21_ExportIdempotent ==
    [][Len(downloads') > Len(downloads) =>
         /\ analysis' = analysis
         /\ downloads'[Len(downloads')].of = analysis
         /\ \A i \in 1..Len(downloads) :
              /\ downloads'[i] = downloads[i]
              /\ downloads'[Len(downloads')].text = downloads[i].text]_vars

\* two exports of the held report, which has two actions
C21_Witness ==
    /\ Len(downloads) = 2
    /\ downloads[1].of = analysis
    /\ downloads[2].of = analysis
    /\ Len(analysis.actions) = 2
    /\ downloads[1].text = downloads[2].text
    /\ Len(downloads[1].text) > Len(HeaderLine)

\* C22: the user payload is the narrative first, followed by one block per
\* attachment in the order in which the files were supplied, whatever the
\* order in which the files' extractions completed.
C22_NarrativeThenAttachmentsInOrder ==
    (RequestSent /\ calls # <<>>) =>
        LET prompt == calls[1].prompt
            sup == SupportedOf(files)
        IN  /\ Len(prompt) = 1 + Len(sup)
            /\ prompt[1].part = "TICKET"
            /\ prompt[1].text.src = <<"ticket">> /\ prompt[1].text.len = ticket.len
            /\ \A k \in 1..Len(sup) :
                 /\ prompt[k + 1].part = "ATTACHMENT"
                 /\ prompt[k + 1].name = sup[k].name
                 /\ prompt[k + 1].text.len <= MAX_ATT
                 /\ ~sup[k].fails => prompt[k + 1].text.src = <<sup[k].name>>

\* a payload for three files: the picture is left out, the DOCX file and the
\* log file follow the narrative in the order of the files
C22_Witness ==
    /\ RequestSent
    /\ calls # <<>>
    /\ Len(files) = 3
    /\ Len(calls[1].prompt) = 3
    /\ calls[1].prompt[2].name = "r.docx"
    /\ calls[1].prompt[3].name = "a.log"

\* a step that starts an analysis run
RunStarts ==
    /\ cpc' = "normalizing"
    /\ cpc # "normalizing" \/ files' # files \/ ticket' # ticket

\* C23: the loading flag is true exactly while an analysis run started by
\* handleAnalyze has not finished; a run starts only while none is in flight,
\* so at most one is in flight at a time; and every run that finishes, with a
\* report, an HTTP error or an exception, leaves loading false.
C23_LoadingWhileInFlight ==
    [][/\ loading <=> cpc # "idle"
       /\ loading' <=> cpc' # "idle"
       /\ RunStarts => (~loading /\ cpc = "idle" /\ pc = "idle" /\ loading')
       /\ (cpc # "idle" /\ cpc' = "idle") => ~loading'
       /\ pc' # "idle" => cpc' = "fetching"]_vars

\* a run that has finished with an HTTP error
C23_Witness ==
    /\ ~loading
    /\ cpc = "idle"
    /\ error.text = "Analysis failed: "

C23_InFlight == loading /\ cpc = "fetching" /\ pc = "awaitRepair"

\* C24: handleAnalyze invoked with an empty or whitespace-only ticket only
\* sets the error message: no request is sent, no file normalization starts,
\* and the current report and the loading flag stay as they were; a run in
\* flight never has a blank ticket.
C24_BlankTicketOnlySetsError ==
    [][/\ (error'.text = "Please enter a ticket description" /\ error' # error) =>
            /\ analysis' = analysis
            /\ loading' = loading
            /\ cpc' = cpc
            /\ outcomes' = outcomes
            /\ files' = files
            /\ pc' = pc /\ req' = req /\ calls' = calls
            /\ downloads' = downloads
       /\ cpc' # "idle" => ~ticket'.blank]_vars

\* the message of the blank ticket next to the report of an earlier run
C24_Witness ==
    /\ error.text = "Please enter a ticket description"
    /\ analysis.defined
    /\ ~loading
    /\ cpc = "idle"
    /\ pc = "idle"

\* an exception was raised while the body was read, the prompt assembled, the
\* capability called or its text parsed
Raised ==
    \/ req.body.kind # "object"
    \/ ~InvalidTicket(req.body.ticket) /\ ~TooLong(req.body.ticket)
         /\ AssemblyThrows(req.body.attachments)
    \/ ExtractionFailed

Awaiting == pc \in {"awaitPrimary", "awaitRepair"}

C25_UnreadableBody ==
    pc = "done" /\ req.body.kind # "object" /\ resp.status = 500 /\ calls = <<>>

====
